---------------------------- MODULE Spec2Model ----------------------------
(***************************************************************************)
(* A model of ssbfile's resource extractor (src/src/extract.rs):           *)
(*   - TableFile::get and its helpers, as operators over an image `rom`    *)
(*     and a version descriptor `info`;                                    *)
(*   - relocate / write_relocations, one action per loop iteration;        *)
(*   - data(), the export orchestrator, as the sequence of its steps.      *)
(* Bytes are 0..255, u16 and u32 fields are decoded big-endian from the    *)
(* bytes as the code does.  Byte offsets are 0-based as in the source; a   *)
(* buffer is a sequence, so offset o is element o + 1.                     *)
(***************************************************************************)
EXTENDS Integers, Sequences, FiniteSets, TLC

VARIABLES
    rom,          \* the image read by data()
    info,         \* the version descriptor: [table_start, table_end]
    opt,          \* the request: [id, mode, emit_relocs]
    pc,           \* the position of data() / relocate() / write_relocations()
    res,          \* the result of TableFile::get: Ok(entry), Err or Panic
    entry,        \* the TableFile handed to relocate
    file,         \* the buffer write_relocations mutates
    file0,        \* the buffer as it was handed to relocate
    next,         \* write_relocations: `next`
    ex,           \* write_relocations: `ex`, the optional iterator over the ids
    relocations,  \* write_relocations: the log being built
    relocs,       \* relocate: FileReloc [internal, external]
    out           \* what data() has written: [data, report], and its result

vars == <<rom, info, opt, pc, res, entry, file, file0, next, ex, relocations,
          relocs, out>>

----------------------------------------------------------------------------
(* Bounds of the model.                                                    *)

\* the longest buffer handed to relocate, in 4-byte nodes
MaxNodes == 2
\* the longest external file id list
MaxIds == 2
\* the walk is cut after this many loop iterations (a cyclic chain never ends)
MaxLog == 4
\* the most real records of a resource table (the terminator comes on top)
MaxEntries == 2
\* the length of the data area that follows the table
DataLen == 8
\* the length of the image's header, before the table
PadLen == 4

----------------------------------------------------------------------------
(* Option<T>: None is the empty sequence, Some(x) the one-element one.     *)

None == <<>>
Some(x) == <<x>>
IsSome(o) == Len(o) = 1
Unwrap(o) == o[1]

----------------------------------------------------------------------------
(* Big-endian fields.                                                      *)

\* v.to_be_bytes() of a u16
BE16(v) == <<v \div 256, v % 256>>
\* v.to_be_bytes() of a u32
BE32(v) == <<v \div 16777216, (v \div 65536) % 256, (v \div 256) % 256, v % 256>>
\* u16::from_be_bytes(s[o..o+2])
U16(s, o) == s[o + 1] * 256 + s[o + 2]
\* the low 31 bits of u32::from_be_bytes(s[o..o+4])
U31(s, o) == (s[o + 1] % 128) * 16777216 + s[o + 2] * 65536 + s[o + 3] * 256 + s[o + 4]
\* the top bit of u32::from_be_bytes(s[o..o+4])
MSB(s, o) == s[o + 1] >= 128
\* &s[a..b], for a <= b <= s.len()
Slice(s, a, b) == [i \in 1..(b - a) |-> s[a + i]]
\* whether &s[a..b] is a slice of s (it panics otherwise)
InBounds(s, a, b) == 0 <= a /\ a <= b /\ b <= Len(s)

----------------------------------------------------------------------------
(* RelocInfo.                                                              *)

Internal(o) == [kind |-> "Internal", start |-> o, ids |-> <<>>]
External(o, ids) == [kind |-> "External", start |-> o, ids |-> ids]
get_starting_offset(r) == r.start
get_external_files(r) == IF r.kind = "Internal" THEN None ELSE Some(r.ids)

----------------------------------------------------------------------------
(* write_relocations.                                                      *)

SENTINEL == 65535
\* the end marker is compared unscaled
EndUnscaled == SENTINEL
\* const END: usize = 0xFFFF * 4
END == SENTINEL * 4

\* reloc.copy_from_slice(&ptr.to_be_bytes()) at o + 2 instead of o
WriteNodeAtPtrField(f, o, ptr) ==
    [i \in 1..Len(f) |-> IF o + 2 < i /\ i <= o + 6 THEN BE32(ptr)[i - o - 2] ELSE f[i]]

\* the pointer is written little-endian
WriteNodeLE(f, o, ptr) ==
    [i \in 1..Len(f) |-> IF o < i /\ i <= o + 4 THEN BE32(ptr)[5 - (i - o)] ELSE f[i]]

\* only the pointer field is written, with the pointer's low 16 bits: the
\* next field keeps its link
WriteNodeKeepNext(f, o, ptr) ==
    [i \in 1..Len(f) |-> IF o + 2 < i /\ i <= o + 4 THEN BE16(ptr % 65536)[i - o - 2] ELSE f[i]]

\* reloc.copy_from_slice(&ptr.to_be_bytes()), reloc = &mut file[o..o+4]
WriteNode(f, o, ptr) ==
    [i \in 1..Len(f) |-> IF o < i /\ i <= o + 4 THEN BE32(ptr)[i - o] ELSE f[i]]

\* the pointer is not scaled
ResolvedPtrUnscaled(f, o) == U16(f, o + 2)

\* let ptr = raw_ptr as u32 * 4
ResolvedPtr(f, o) == U16(f, o + 2) * 4

\* the id list's last id is repeated once the list is exhausted
NextFidRepeat(e, ids) ==
    IF IsSome(e) /\ Len(Unwrap(e)) > 0 THEN Head(Unwrap(e))
    ELSE IF IsSome(e) /\ Len(ids) > 0 THEN ids[Len(ids)] ELSE 0

\* ex.as_mut().and_then(|x| x.next()).copied().unwrap_or(0)
NextFid(e, ids) ==
    IF IsSome(e) /\ Len(Unwrap(e)) > 0 THEN Head(Unwrap(e)) ELSE 0

\* the iterator after x.next()
Advance(e) ==
    IF IsSome(e) /\ Len(Unwrap(e)) > 0 THEN Some(Tail(Unwrap(e))) ELSE e

\* the node is written before its next field is read
WalkNodeWriteFirst(f, o) ==
    LET ptr == ResolvedPtr(f, o)
        g   == WriteNode(f, o, ptr)
    IN  [file |-> g, ptr |-> ptr, next |-> U16(g, o) * 4]

\* one iteration of the loop on the node at o: both fields are read, the node
\* is overwritten, and the walk moves to raw_next * 4
WalkNode(f, o) ==
    LET raw_next == U16(f, o)
        ptr      == ResolvedPtr(f, o)
    IN  [file |-> WriteNode(f, o, ptr), ptr |-> ptr, next |-> raw_next * 4]

Walking == pc \in {"walk_in", "walk_ex"}

\* let mut ex = ...; let mut next = reloc.get_starting_offset();
BeginWalk(r, at) ==
    /\ next' = get_starting_offset(r)
    /\ ex' = get_external_files(r)
    /\ relocations' = <<>>
    /\ pc' = at

\* while next != END { ... }: one iteration, on a node inside the buffer
WalkStep ==
    /\ Walking
    /\ next # END
    /\ Len(relocations) < MaxLog
    /\ InBounds(file, next, next + 4)
    /\ LET w   == WalkNode(file, next)
           r   == IF pc = "walk_in" THEN Unwrap(entry.inreloc) ELSE Unwrap(entry.exreloc)
           fid == NextFid(ex, r.ids)
       IN  /\ file' = w.file
           /\ ex' = Advance(ex)
           /\ relocations' = Append(relocations, <<fid, next, w.ptr>>)
           /\ next' = w.next
    /\ UNCHANGED <<rom, info, opt, pc, res, entry, file0, relocs, out>>

\* &mut file[next..next + 4] panics when the node is not inside the buffer
WalkPanic ==
    /\ Walking
    /\ next # END
    /\ ~InBounds(file, next, next + 4)
    /\ pc' = "panic"
    /\ UNCHANGED <<rom, info, opt, res, entry, file, file0, next, ex, relocations,
                   relocs, out>>

\* Ok(relocations), stored by relocate in relocs.internal or relocs.external
WalkReturn ==
    /\ Walking
    /\ next = END
    /\ relocs' = IF pc = "walk_in"
                 THEN [relocs EXCEPT !.internal = Some(relocations)]
                 ELSE [relocs EXCEPT !.external = Some(relocations)]
    /\ pc' = IF pc = "walk_in" THEN "relocate_ex" ELSE "relocated"
    /\ UNCHANGED <<rom, info, opt, res, entry, file, file0, next, ex, relocations, out>>

----------------------------------------------------------------------------
(* relocate.                                                               *)

\* if let Some(reloc) = &entry.inreloc { ... }
RelocateInternal ==
    /\ pc = "relocate"
    /\ IF IsSome(entry.inreloc)
       THEN BeginWalk(Unwrap(entry.inreloc), "walk_in")
       ELSE pc' = "relocate_ex" /\ UNCHANGED <<next, ex, relocations>>
    /\ UNCHANGED <<rom, info, opt, res, entry, file, file0, relocs, out>>

\* if let Some(exreloc) = &entry.exreloc { ... }
RelocateExternal ==
    /\ pc = "relocate_ex"
    /\ IF IsSome(entry.exreloc)
       THEN BeginWalk(Unwrap(entry.exreloc), "walk_ex")
       ELSE pc' = "relocated" /\ UNCHANGED <<next, ex, relocations>>
    /\ UNCHANGED <<rom, info, opt, res, entry, file, file0, relocs, out>>

----------------------------------------------------------------------------
(* Buffers and chains relocate is run on.                                  *)

\* the pointer fields of the nodes
PtrVals == {16, 16384, 65535}
\* the next fields of the nodes of a buffer of n nodes: a node of the buffer,
\* the first offset past it, or the terminator
NextVals(n) == (0..n) \cup {SENTINEL}
\* BE {u16 next; u16 ptrOffset}
NodeBytes(nd) == BE16(nd[1]) \o BE16(nd[2])
RECURSIVE Flatten(_)
Flatten(ns) == IF Len(ns) = 0 THEN <<>> ELSE NodeBytes(Head(ns)) \o Flatten(Tail(ns))
Buffers(n) == {Flatten(ns) : ns \in [1..n -> NextVals(n) \X PtrVals]}
\* the i-th id of an external file list
ExId(i) == 2 * i + 3
ExLists == {[i \in 1..n |-> ExId(i)] : n \in 0..MaxIds}

NoOut == [data |-> None, report |-> None, decoded |-> "no", result |-> "running"]
NoRelocs == [internal |-> None, external |-> None]
NoRes == [kind |-> "None"]

InitReloc ==
    /\ rom = <<>>
    /\ info = [table_start |-> 0, table_end |-> 12]
    /\ opt = [id |-> 0, mode |-> "Relocated", emit_relocs |-> FALSE]
    /\ res = NoRes
    /\ pc = "relocate"
    /\ \E n \in 1..MaxNodes :
         /\ file \in Buffers(n)
         /\ \E inr \in {None} \cup {Some(Internal(4 * h)) : h \in 0..n},
               exr \in {None} \cup {Some(External(4 * h, ids)) : h \in 0..n, ids \in ExLists} :
              entry = [id |-> 0, offset |-> 0, compressed |-> FALSE, raw |-> file,
                       inreloc |-> inr, exreloc |-> exr]
    /\ file0 = file
    /\ next = 0
    /\ ex = None
    /\ relocations = <<>>
    /\ relocs = NoRelocs
    /\ out = NoOut

NextReloc ==
    \/ RelocateInternal
    \/ RelocateExternal
    \/ WalkStep
    \/ WalkPanic
    \/ WalkReturn

SpecReloc == InitReloc /\ [][NextReloc]_vars

----------------------------------------------------------------------------
(* Machine integers.  A usize is an Int; a value that wrapped below 0 in a *)
(* release build is kept as that negative Int (2^64 + n as a usize), which *)
(* InBounds refuses as it refuses every bound past the buffer's end.  A    *)
(* usize of 2^30 or more is kept as 2^30: every image of the model is      *)
(* shorter, and TLC's integers end at 2^31 - 1.                            *)

Huge == 2^30
\* u32::from_be_bytes(s[o..o+4]) as usize, the top bit included
U32(s, o) == IF MSB(s, o) \/ U31(s, o) >= Huge THEN Huge ELSE U31(s, o)
\* overflow checks are on in a debug build, off in a release build
Builds == {"debug", "release"}

----------------------------------------------------------------------------
(* SSBInfo and TableFile::get.                                             *)

ENTRY_SIZE == 12

\* SSBInfo::total_entries; the descriptors of the model hold the terminator
total_entries(inf) == ((inf.table_end - inf.table_start) \div 12) - 1

Ok(v, reads) == [kind |-> "Ok", val |-> v, reads |-> reads]
Err(e, reads) == [kind |-> "Err", err |-> e, reads |-> reads]
\* a range outside its buffer yields an empty record instead of a panic
PanicAsEmpty(why, reads) ==
    [kind |-> "Ok",
     val |-> [id |-> 0, offset |-> 0, compressed |-> FALSE, raw |-> <<>>,
              inreloc |-> <<>>, exreloc |-> <<>>],
     reads |-> reads]
\* a panic: an out-of-range slice index or an arithmetic overflow
Panic(why, reads) == [kind |-> "Panic", why |-> why, reads |-> reads]

\* 0xFFFF is taken as a literal value, never as "absent"
read_checked_u16_literal(e, o) == Some(U16(e, o))

\* read_checked_u16(&e[o..o+2])
read_checked_u16(e, o) == IF U16(e, o) = SENTINEL THEN None ELSE Some(U16(e, o))

\* an odd-length list loses its last byte instead of failing
parse_externs_truncating(raw) ==
    Ok([i \in 1..(Len(raw) \div 2) |-> U16(raw, 2 * (i - 1))], <<>>)

\* TableFile::parse_externs
parse_externs(raw) ==
    IF Len(raw) % 2 # 0
    THEN Err("MalformedList", <<>>)
    ELSE Ok([i \in 1..(Len(raw) \div 2) |-> U16(raw, 2 * (i - 1))], <<>>)

\* the bail! of TableFile::get: the message holds total_entries() and
\* total_entries() - 1, a usize subtraction that overflows when there is no entry
OutOfRange(id, inf, build) ==
    LET total == total_entries(inf)
    IN  IF total = 0 /\ build = "debug"
        THEN Panic("overflow", <<>>)
        ELSE [kind |-> "Err", err |-> "OutOfRange", id |-> id, entries |-> total,
              last |-> total - 1, reads |-> <<>>]

\* (offset & !COMPRESS_BIT) as usize
EntryOffset(e) == U31(e, 0)

\* the size field is not scaled
EntrySizeUnscaled(e) == U16(e, 6)

\* u16::from_be_bytes(entry[6..8]) as usize * 4
EntrySize(e) == U16(e, 6) * 4

\* the list is taken to start at the payload's start
ExternStartAtPayload(offset, size) == offset

\* let exoffstart = offset + size
ExternStart(offset, size) == offset + size

\* the terminator is taken to be the record of the requested id
TerminatorStartOffByOne(nxt, inf) == inf.table_start + (nxt - 1) * ENTRY_SIZE

\* let start = info.table_start + (next * Self::ENTRY_SIZE)
TerminatorStart(nxt, inf) == inf.table_start + nxt * ENTRY_SIZE

\* the next record is not resolved: only its offset word is read
get_next_entry_offset_direct(id, image, inf, build) ==
    LET nxt   == id + 1
        start == TerminatorStart(nxt, inf)
    IN  IF ~InBounds(image, start, start + 4)
        THEN Panic("slice", <<<<start, start + 4>>>>)
        ELSE Ok(IF nxt >= total_entries(inf) THEN U32(image, start) ELSE U31(image, start),
                <<<<start, start + 4>>>>)

RECURSIVE Get(_, _, _, _)
RECURSIVE get_next_entry_offset(_, _, _, _)

\* TableFile::get_next_entry_offset
get_next_entry_offset(id, image, inf, build) ==
    LET nxt == id + 1
    IN  IF nxt >= total_entries(inf)
        THEN LET start == TerminatorStart(nxt, inf)
             IN  IF ~InBounds(image, start, start + 4)
                 THEN Panic("slice", <<<<start, start + 4>>>>)
                 ELSE Ok(U32(image, start), <<<<start, start + 4>>>>)
        ELSE LET g == Get(nxt, image, inf, build)
             IN  IF g.kind = "Ok" THEN Ok(g.val.offset, g.reads) ELSE g

\* TableFile::get
Get(id, image, inf, build) ==
    IF id >= total_entries(inf)
    THEN OutOfRange(id, inf, build)
    ELSE
    LET start == inf.table_start + id * ENTRY_SIZE
        end   == start + ENTRY_SIZE
    IN  IF ~InBounds(image, start, end)
        THEN Panic("slice", <<<<start, end>>>>)
        ELSE
    LET e          == Slice(image, start, end)
        compressed == MSB(e, 0)
        offset     == EntryOffset(e)
        size       == EntrySize(e)
        fstart     == inf.table_end + offset
        fend       == fstart + size
        rd1        == <<<<start, end>>, <<fstart, fend>>>>
    IN  IF ~InBounds(image, fstart, fend)
        THEN Panic("slice", rd1)
        ELSE
    LET raw     == Slice(image, fstart, fend)
        inhead  == read_checked_u16(e, 4)
        inreloc == IF IsSome(inhead) THEN Some(Internal(Unwrap(inhead) * 4)) ELSE None
        exhead  == read_checked_u16(e, 8)
        rec(x)  == [id |-> id, offset |-> offset, compressed |-> compressed,
                    raw |-> raw, inreloc |-> inreloc, exreloc |-> x]
    IN  IF ~IsSome(exhead)
        THEN Ok(rec(None), rd1)
        ELSE
    LET nx == get_next_entry_offset(id, image, inf, build)
    IN  IF nx.kind # "Ok"
        THEN [nx EXCEPT !.reads = rd1 \o nx.reads]
        ELSE
    LET next_start == nx.val
        exoffstart == ExternStart(offset, size)
        exoffsize  == next_start - exoffstart
        exstart    == exoffstart + inf.table_end
        exend      == exstart + exoffsize
        rd2        == rd1 \o nx.reads
        rd3        == rd2 \o <<<<exstart, exend>>>>
    IN  IF next_start < exoffstart /\ build = "debug"
        THEN Panic("overflow", rd2)
        ELSE IF ~InBounds(image, exstart, exend)
        THEN Panic("slice", rd3)
        ELSE
    LET pe == parse_externs(Slice(image, exstart, exend))
    IN  IF pe.kind = "Err"
        THEN Err(pe.err, rd3)
        ELSE Ok(rec(Some(External(Unwrap(exhead) * 4, pe.val))), rd3)

----------------------------------------------------------------------------
(* data(): the table lookup.                                               *)

\* let entry = TableFile::get(opt.id, &rom, version).with_context(..)?;
DoGet ==
    /\ pc = "get"
    /\ \E build \in Builds :
         LET r == Get(opt.id, rom, info, build)
         IN  /\ res' = r
             /\ entry' = IF r.kind = "Ok" THEN r.val ELSE entry
             /\ pc' = IF r.kind = "Ok" THEN "emit"
                      ELSE IF r.kind = "Err" THEN "done" ELSE "panic"
             /\ out' = IF r.kind = "Err" THEN [out EXCEPT !.result = "Err"] ELSE out
    /\ UNCHANGED <<rom, info, opt, file, file0, next, ex, relocations, relocs>>

----------------------------------------------------------------------------
(* Images TableFile::get is run on: a header, the table (the real records  *)
(* and the terminator) and the data area.                                  *)

\* the 12 bytes of a table record
EncodeEntry(r) ==
    <<(IF r.compressed THEN 128 ELSE 0) + (r.offset \div 16777216),
      (r.offset \div 65536) % 256, (r.offset \div 256) % 256, r.offset % 256>>
    \o BE16(r.inhead) \o BE16(r.size) \o BE16(r.exhead) \o <<0, 0>>

RECURSIVE EncodeTable(_)
EncodeTable(rs) == IF Len(rs) = 0 THEN <<>> ELSE EncodeEntry(Head(rs)) \o EncodeTable(Tail(rs))

\* the real records of the model's tables
Records(inh) ==
    [compressed : BOOLEAN, offset : {0, 4, 5}, inhead : {inh}, size : {0, 1},
     exhead : {SENTINEL, 1}]
\* the terminators of the model's tables
Terminators ==
    [compressed : BOOLEAN, offset : {DataLen, DataLen + 1}, inhead : {SENTINEL},
     size : {0}, exhead : {SENTINEL}]
\* the data area: byte i holds i
DataArea == [i \in 1..DataLen |-> i]
Header == [i \in 1..PadLen |-> 238]
Image(rs, t) == Header \o EncodeTable(rs) \o EncodeEntry(t) \o DataArea

Nothing == [id |-> 0, offset |-> 0, compressed |-> FALSE, raw |-> <<>>,
            inreloc |-> None, exreloc |-> None]

InitGet ==
    /\ \E n \in 0..MaxEntries, inh \in {SENTINEL, 0} :
         /\ \E rs \in [1..n -> Records(inh)], t \in Terminators : rom = Image(rs, t)
         /\ info = [table_start |-> PadLen, table_end |-> PadLen + ENTRY_SIZE * (n + 1)]
         /\ \E id \in 0..(n + 1) : opt = [id |-> id, mode |-> "RawBytes", emit_relocs |-> FALSE]
    /\ pc = "get"
    /\ res = NoRes
    /\ entry = Nothing
    /\ file = <<>>
    /\ file0 = <<>>
    /\ next = 0
    /\ ex = None
    /\ relocations = <<>>
    /\ relocs = NoRelocs
    /\ out = NoOut

NextGet == DoGet

SpecGet == InitGet /\ [][NextGet]_vars

----------------------------------------------------------------------------
(* data(): the export orchestrator.                                        *)

Modes == {"RawBytes", "Decompressed", "Relocated"}

\* the stand-in for vpk0::decode on the payloads it accepts: the decoder is
\* opaque, its output is some buffer other than its input
Expand(raw) == raw \o raw

\* the payload is decoded whenever it is compressed, in raw mode too
NeedsDecodeAnyMode(mode, compressed) == compressed

\* the match on opt.mode: the Decompressed and Relocated arms decode a
\* compressed payload, the RawBytes arm never does
NeedsDecode(mode, compressed) == mode # "RawBytes" /\ compressed

\* where data() goes once it holds the bytes of the file
AfterPrepare == IF opt.mode = "Relocated" THEN "relocate" ELSE "write"

\* fs::read(&opt.rom)? and find_version(&rom).ok_or_else(..)?: the image is
\* read and identified, or data() returns the error.  The file system and the
\* checksum lookup are the environment: either outcome may happen, and an
\* identified image comes with the descriptor `info` of its table.
OpenRom ==
    /\ pc = "start"
    /\ \/ pc' = "get" /\ out' = out
       \/ pc' = "done" /\ out' = [out EXCEPT !.result = "Err"]
    /\ UNCHANGED <<rom, info, opt, res, entry, file, file0, next, ex, relocations, relocs>>

\* the bytes of the file when no decoding is needed: entry.raw, or its copy
\* entry.raw.to_vec()
TakeRaw ==
    /\ pc = "emit"
    /\ ~NeedsDecode(opt.mode, entry.compressed)
    /\ file' = entry.raw
    /\ file0' = entry.raw
    /\ pc' = AfterPrepare
    /\ UNCHANGED <<rom, info, opt, res, entry, next, ex, relocations, relocs, out>>

\* decompress(entry.raw, entry.id)?: the decoder's output, or its error
Decompress ==
    /\ pc = "emit"
    /\ NeedsDecode(opt.mode, entry.compressed)
    /\ \/ /\ file' = Expand(entry.raw)
          /\ file0' = Expand(entry.raw)
          /\ out' = [out EXCEPT !.decoded = "ok"]
          /\ pc' = AfterPrepare
       \/ /\ out' = [out EXCEPT !.decoded = "err", !.result = "Err"]
          /\ pc' = "done"
          /\ UNCHANGED <<file, file0>>
    /\ UNCHANGED <<rom, info, opt, res, entry, next, ex, relocations, relocs>>

\* the result of fs::write is dropped: data() goes on as if the data file
\* had been written
WriteDataUnchecked ==
    /\ pc \in {"write", "relocated"}
    /\ \E written \in BOOLEAN :
         out' = [out EXCEPT !.data = IF written THEN Some(file) ELSE out.data,
                            !.result = IF opt.mode = "Relocated" /\ opt.emit_relocs
                                       THEN "running" ELSE "Ok"]
    /\ pc' = IF opt.mode = "Relocated" /\ opt.emit_relocs THEN "report" ELSE "done"
    /\ UNCHANGED <<rom, info, opt, res, entry, file, file0, next, ex, relocations, relocs>>

\* fs::write(&*output, ..).with_context(..)?: the data file is written, or
\* data() returns the error
WriteData ==
    /\ pc \in {"write", "relocated"}
    /\ \/ /\ out' = [out EXCEPT !.data = Some(file),
                                !.result = IF opt.mode = "Relocated" /\ opt.emit_relocs
                                           THEN "running" ELSE "Ok"]
          /\ pc' = IF opt.mode = "Relocated" /\ opt.emit_relocs THEN "report" ELSE "done"
       \/ /\ out' = [out EXCEPT !.result = "Err"]
          /\ pc' = "done"
    /\ UNCHANGED <<rom, info, opt, res, entry, file, file0, next, ex, relocations, relocs>>

\* if opt.emit_relocs { .. fs::write(&f, relocs.as_bytes()).with_context(..)? }
WriteReport ==
    /\ pc = "report"
    /\ \/ out' = [out EXCEPT !.report = Some(relocs), !.result = "Ok"]
       \/ out' = [out EXCEPT !.result = "Err"]
    /\ pc' = "done"
    /\ UNCHANGED <<rom, info, opt, res, entry, file, file0, next, ex, relocations, relocs>>

----------------------------------------------------------------------------
(* Images data() is run on: one real record, whose payload holds the       *)
(* relocation nodes and is followed by the external file list.             *)

\* a 2-node chain, two 1-node chains, a node that is its own successor, and
\* a node whose successor lies past the payload
Payloads ==
    {Flatten(<<<<1, 16>>, <<SENTINEL, 32>>>>),
     Flatten(<<<<SENTINEL, 16>>, <<SENTINEL, 65535>>>>),
     Flatten(<<<<0, 16>>, <<SENTINEL, 16384>>>>),
     Flatten(<<<<2, 16>>, <<SENTINEL, 16>>>>)}
Heads == {SENTINEL, 0, 1}

RECURSIVE EncodeIds(_)
EncodeIds(ids) == IF Len(ids) = 0 THEN <<>> ELSE BE16(Head(ids)) \o EncodeIds(Tail(ids))

ExportImage(payload, ids, compressed, inh, exh) ==
    Header
    \o EncodeEntry([compressed |-> compressed, offset |-> 0, inhead |-> inh,
                    size |-> Len(payload) \div 4, exhead |-> exh])
    \o EncodeEntry([compressed |-> FALSE, offset |-> Len(payload) + 2 * Len(ids),
                    inhead |-> SENTINEL, size |-> 0, exhead |-> SENTINEL])
    \o payload \o EncodeIds(ids)

Init ==
    /\ \E payload \in Payloads, ids \in ExLists, c \in BOOLEAN, inh \in Heads, exh \in Heads :
         rom = ExportImage(payload, ids, c, inh, exh)
    /\ info = [table_start |-> PadLen, table_end |-> PadLen + 2 * ENTRY_SIZE]
    /\ opt \in [id : {0, 1}, mode : Modes, emit_relocs : BOOLEAN]
    /\ pc = "start"
    /\ res = NoRes
    /\ entry = Nothing
    /\ file = <<>>
    /\ file0 = <<>>
    /\ next = 0
    /\ ex = None
    /\ relocations = <<>>
    /\ relocs = NoRelocs
    /\ out = NoOut

Next ==
    \/ OpenRom
    \/ DoGet
    \/ TakeRaw
    \/ Decompress
    \/ RelocateInternal
    \/ RelocateExternal
    \/ WalkStep
    \/ WalkPanic
    \/ WalkReturn
    \/ WriteData
    \/ WriteReport

Spec == Init /\ [][Next]_vars

----------------------------------------------------------------------------
(* Malformed images data() is run on: the terminator's offset is not the   *)
(* end of the list, or the image is cut short.                             *)

\* the image of ExportImage with the terminator's offset field set to toff
MalformedImage(payload, ids, compressed, inh, exh, toff) ==
    Header
    \o EncodeEntry([compressed |-> compressed, offset |-> 0, inhead |-> inh,
                    size |-> Len(payload) \div 4, exhead |-> exh])
    \o EncodeEntry([compressed |-> FALSE, offset |-> toff,
                    inhead |-> SENTINEL, size |-> 0, exhead |-> SENTINEL])
    \o payload \o EncodeIds(ids)
\* the terminator's offset: the end of the list, the start of the payload
\* (before the list's start) and 2 bytes past the end of the image
TermOffsets(payload, ids) ==
    {Len(payload) + 2 * Len(ids), 0, Len(payload) + 2 * Len(ids) + 2}
\* the lengths an image is cut to: not cut, its last byte lost, cut inside
\* the payload, cut inside the real record
CutLens(img) == {Len(img), Len(img) - 1, PadLen + 2 * ENTRY_SIZE + 4, PadLen + 6}

InitBounds ==
    /\ \E payload \in Payloads, ids \in ExLists, c \in BOOLEAN, inh \in Heads, exh \in Heads :
         \E toff \in TermOffsets(payload, ids) :
           LET img == MalformedImage(payload, ids, c, inh, exh, toff)
           IN  \E l \in CutLens(img) : rom = SubSeq(img, 1, l)
    /\ info = [table_start |-> PadLen, table_end |-> PadLen + 2 * ENTRY_SIZE]
    /\ opt \in [id : {0, 1}, mode : Modes, emit_relocs : BOOLEAN]
    /\ pc = "start"
    /\ res = NoRes
    /\ entry = Nothing
    /\ file = <<>>
    /\ file0 = <<>>
    /\ next = 0
    /\ ex = None
    /\ relocations = <<>>
    /\ relocs = NoRelocs
    /\ out = NoOut

SpecBounds == InitBounds /\ [][Next]_vars

----------------------------------------------------------------------------
(* The ssb-resource library: ResourceTbl.  `info` holds the ResourceTbl,   *)
(* `res` the result of get_entry.                                          *)

\* ResTblEntry::from(&[u8; 12])
ResTblEntryFrom(arr) ==
    [compressed        |-> MSB(arr, 0),
     offset            |-> U31(arr, 0),
     internal_ptr_list |-> IF U16(arr, 4) = SENTINEL THEN None ELSE Some(U16(arr, 4) * 4),
     external_ptr_list |-> IF U16(arr, 8) = SENTINEL THEN None ELSE Some(U16(arr, 8) * 4),
     compressed_size   |-> U16(arr, 6) * 4,
     decompressed_size |-> U16(arr, 10) * 4]

\* ResTblEntry::calc_ptr
calc_ptr(e, table_start) == table_start + e.offset

\* ResourceTbl::get_entry; reads holds the range of rom_data it decodes
get_entry(tbl, rom_data, id) ==
    IF id > tbl.entries_count
    THEN [kind |-> "Err", err |-> "IllegalFile", id |-> id,
          entries_count |-> tbl.entries_count, reads |-> <<>>]
    ELSE IF ~InBounds(rom_data, tbl.start, tbl.end - 12)
    THEN Panic("slice", <<>>)
    ELSE
    LET table_data == Slice(rom_data, tbl.start, tbl.end - 12)
        a          == id * 12
        b          == (id + 1) * 12
    IN  IF ~InBounds(table_data, a, b)
        THEN Panic("slice", <<>>)
        ELSE LET e == ResTblEntryFrom(Slice(table_data, a, b))
             IN  Ok(<<e, calc_ptr(e, tbl.start)>>, <<<<tbl.start + a, tbl.start + b>>>>)

\* ResourceTbl::from_rom: `start` and `entries_count` are words the code reads
\* at addresses fixed per game version and are given in `info`; the 12 bytes
\* after the last entry are copied to eof and `end` is set past them
FromRom ==
    /\ pc = "tbl_from_rom"
    /\ LET entries_end == info.start + 12 * info.entries_count
       IN  IF ~InBounds(rom, entries_end, entries_end + 12)
           THEN pc' = "panic" /\ info' = info
           ELSE /\ info' = [info EXCEPT !.eof = Slice(rom, entries_end, entries_end + 12),
                                        !.ptr_to_next_tbl = U32(rom, entries_end),
                                        !.end = entries_end + 12]
                /\ pc' = "tbl_get_entry"
    /\ UNCHANGED <<rom, opt, res, entry, file, file0, next, ex, relocations, relocs, out>>

\* Ssb64::get_res_tbl_entry: self.resource_table.get_entry(rom, entry)
GetEntry ==
    /\ pc = "tbl_get_entry"
    /\ res' = get_entry(info, rom, opt.id)
    /\ pc' = IF res'.kind = "Panic" THEN "panic" ELSE "done"
    /\ UNCHANGED <<rom, info, opt, entry, file, file0, next, ex, relocations, relocs, out>>

\* the images of the library's model: the header, n real records, the record
\* that ends the table and the data area; whole, or cut inside that last record
TblRecords ==
    [compressed : BOOLEAN, offset : {0, 4}, inhead : {SENTINEL, 0}, size : {1},
     exhead : {SENTINEL}]
TblEof == [compressed |-> FALSE, offset |-> DataLen, inhead |-> SENTINEL, size |-> 0,
           exhead |-> SENTINEL]

InitTbl ==
    /\ \E n \in 0..MaxEntries :
         /\ \E rs \in [1..n -> TblRecords] :
              LET img == Image(rs, TblEof)
              IN  \E l \in {Len(img), PadLen + ENTRY_SIZE * n + 6} : rom = SubSeq(img, 1, l)
         /\ info = [entries_count |-> n, start |-> PadLen, eof |-> <<>>,
                    ptr_to_next_tbl |-> 0, end |-> 0]
         /\ \E id \in 0..(n + 2) : opt = [id |-> id, mode |-> "RawBytes", emit_relocs |-> FALSE]
    /\ pc = "tbl_from_rom"
    /\ res = NoRes
    /\ entry = Nothing
    /\ file = <<>>
    /\ file0 = <<>>
    /\ next = 0
    /\ ex = None
    /\ relocations = <<>>
    /\ relocs = NoRelocs
    /\ out = NoOut

NextTbl ==
    \/ FromRom
    \/ GetEntry

SpecTbl == InitTbl /\ [][NextTbl]_vars

----------------------------------------------------------------------------
(* Properties of TableFile::get, under SpecGet.                            *)

\* the fields of table record i, read from the image
RecordStart(i) == info.table_start + ENTRY_SIZE * i
OffsetOf(i) == U31(rom, RecordStart(i))
SizeOf(i) == 4 * U16(rom, RecordStart(i) + 6)
ExHeadOf(i) == U16(rom, RecordStart(i) + 8)
\* the offset that ends record i's external list: record i + 1's, or the
\* one of the terminator, the record at table index total_entries
NextOffsetOf(i) ==
    IF i + 1 < total_entries(info) THEN OffsetOf(i + 1)
    ELSE U32(rom, RecordStart(total_entries(info)))
ListStart(i) == info.table_end + OffsetOf(i) + SizeOf(i)
ListEnd(i) == info.table_end + NextOffsetOf(i)
\* the last slice TableFile::get took of the image
LastRead == res.reads[Len(res.reads)]

\* the ids of the table, and the ids an OutOfRange message "file id 0 to
\* last" names (a negative last is a usize that wrapped)
ValidIds == {i \in 0..(MaxEntries + 2) : i < total_entries(info)}
ReportedIds == {i \in 0..(MaxEntries + 2) : res.last < 0 \/ i <= res.last}

\* C1: get(id) with id >= total_entries returns the OutOfRange error, whose
\* message reports the valid id range, before slicing the image; with
\* id = total_entries - 1 that error is not produced.
C1_OutOfRange ==
    res.kind # "None" =>
        /\ opt.id >= total_entries(info) =>
               /\ res.kind = "Err"
               /\ res.err = "OutOfRange"
               /\ res.reads = <<>>
               /\ ReportedIds = ValidIds
        /\ opt.id = total_entries(info) - 1 =>
               ~(res.kind = "Err" /\ res.err = "OutOfRange")

\* C2: whenever get returns a record, its payload is exactly the image bytes
\* [table_end + offset, table_end + offset + payload_size), offset the low 31
\* bits of the record's first word and payload_size 4 * the field at bytes
\* 6..8; the range lies inside the image and has length payload_size.
C2_PayloadSlice ==
    res.kind = "Ok" =>
        LET a == info.table_end + OffsetOf(opt.id)
            b == a + SizeOf(opt.id)
        IN  /\ opt.id < total_entries(info)
            /\ InBounds(rom, a, b)
            /\ Len(res.val.raw) = SizeOf(opt.id)
            /\ \A i \in 1..Len(res.val.raw) : res.val.raw[i] = rom[a + i]
            /\ res.val.offset = OffsetOf(opt.id)
            /\ res.val.compressed = MSB(rom, RecordStart(opt.id))

\* C2 witness: a compressed record at offset 4 whose payload is the data
\* area's bytes 4..8
C2_Witness ==
    /\ res.kind = "Ok"
    /\ res.val.compressed
    /\ res.val.offset = 4
    /\ res.val.raw = <<5, 6, 7, 8>>

\* C5: an external list of odd length fails with MalformedList, so resolving
\* a record whose list span is odd fails; a list of 2n bytes yields its n
\* big-endian 16-bit values in order.
C5_ParseExterns ==
    /\ res.kind = "Ok" /\ IsSome(res.val.exreloc) =>
           LET ids == Unwrap(res.val.exreloc).ids
               a   == LastRead[1]
               b   == LastRead[2]
           IN  /\ (b - a) % 2 = 0
               /\ Len(ids) * 2 = b - a
               /\ \A i \in 1..Len(ids) : ids[i] = rom[a + 2 * i - 1] * 256 + rom[a + 2 * i]
    /\ res.kind = "Err" /\ res.err = "MalformedList" => (LastRead[2] - LastRead[1]) % 2 = 1
    /\ /\ res.kind # "None"
       /\ opt.id < total_entries(info)
       /\ ExHeadOf(opt.id) # SENTINEL
       /\ InBounds(rom, ListStart(opt.id), ListEnd(opt.id))
       /\ (ListEnd(opt.id) - ListStart(opt.id)) % 2 = 1
       => res.kind # "Ok"

\* C5 witness: a 4-byte list parsed into the two values 0x0506 and 0x0708
C5_Witness ==
    /\ res.kind = "Ok"
    /\ IsSome(res.val.exreloc)
    /\ Unwrap(res.val.exreloc).ids = <<1286, 1800>>

\* C5, the failing case, reached as well: a list span of odd length
C5_MalformedReached ==
    /\ res.kind = "Err"
    /\ res.err = "MalformedList"
    /\ LastRead[2] - LastRead[1] = 1

\* C9: the external list of a record with an external chain is parsed from
\* exactly the bytes [table_end + offset + payload_size, table_end + next_offset),
\* next_offset being record id + 1's offset, or the terminator's for the last
\* real record; its length is next_offset - (offset + payload_size).
C9_ExternSpan ==
    res.kind = "Ok" /\ IsSome(res.val.exreloc) =>
        LET ids == Unwrap(res.val.exreloc).ids
            a   == ListStart(opt.id)
            b   == ListEnd(opt.id)
        IN  /\ ExHeadOf(opt.id) # SENTINEL
            /\ InBounds(rom, a, b)
            /\ LastRead = <<a, b>>
            /\ b - a = NextOffsetOf(opt.id) - (OffsetOf(opt.id) + SizeOf(opt.id))
            /\ Len(ids) * 2 = b - a
            /\ \A i \in 1..Len(ids) : ids[i] = U16(rom, a + 2 * (i - 1))

\* C9 witness: the last real record's list ends at the terminator's offset,
\* a middle record's at the next record's
C9_Witness ==
    /\ res.kind = "Ok"
    /\ IsSome(res.val.exreloc)
    /\ opt.id = total_entries(info) - 1
    /\ Len(Unwrap(res.val.exreloc).ids) = 2
    /\ NextOffsetOf(opt.id) = DataLen

\* C9 second case, reached as well: the list of a record that is not the last
C9_MiddleReached ==
    /\ res.kind = "Ok"
    /\ IsSome(res.val.exreloc)
    /\ opt.id + 1 < total_entries(info)
    /\ Len(Unwrap(res.val.exreloc).ids) = 2

----------------------------------------------------------------------------
(* Properties of write_relocations and relocate, under SpecReloc.          *)

\* the node offsets of a log are pairwise distinct: the chain walked was acyclic
Acyclic(log) == \A i, j \in 1..Len(log) : i # j => log[i][2] # log[j][2]

\* the log of the first call of write_relocations, in the states where that
\* call has returned and no other call has started (file is its buffer)
FirstWalkLogs ==
    IF pc = "relocate_ex" /\ IsSome(relocs.internal) THEN {Unwrap(relocs.internal)}
    ELSE IF pc = "relocated" /\ ~IsSome(relocs.internal) /\ IsSome(relocs.external)
         THEN {Unwrap(relocs.external)}
    ELSE {}

\* C3: after one call of write_relocations on an acyclic in-bounds chain, every
\* visited node whose pointer field was p holds the big-endian 32-bit value
\* p * 4, and its log entry records resolved_pointer = p * 4.
C3_PointersScaled ==
    \A log \in FirstWalkLogs :
        Acyclic(log) =>
            \A k \in 1..Len(log) :
                LET o == log[k][2]
                    p == U16(file0, o + 2)
                IN  /\ log[k][3] = p * 4
                    /\ ~MSB(file, o)
                    /\ U31(file, o) = p * 4

\* C3 witness: a completed walk of a 2-node chain, one pointer field 0xFFFF
C3_Witness ==
    \E log \in FirstWalkLogs :
        /\ Acyclic(log)
        /\ Len(log) = 2
        /\ log[1][3] = 64
        /\ log[2][3] = 262140
        /\ U31(file, log[2][2]) = 262140

\* the ids a log of an external chain must be tagged with
TaggedWith(log, ids) ==
    \A k \in 1..Len(log) : log[k][1] = IF k <= Len(ids) THEN ids[k] ELSE 0

\* C4: the k-th node visited is tagged external_ids[k] while the list lasts,
\* 0 once it is exhausted, and 0 for every node of an internal chain.
C4_FileIds ==
    /\ pc = "walk_in" => TaggedWith(relocations, <<>>)
    /\ pc = "walk_ex" => TaggedWith(relocations, Unwrap(entry.exreloc).ids)
    /\ IsSome(relocs.internal) => TaggedWith(Unwrap(relocs.internal), <<>>)
    /\ IsSome(relocs.external) =>
           TaggedWith(Unwrap(relocs.external), Unwrap(entry.exreloc).ids)

\* C4 witness: a 2-node external chain walked with the one-id list [5]
C4_Witness ==
    /\ IsSome(relocs.external)
    /\ Unwrap(entry.exreloc).ids = <<5>>
    /\ Len(Unwrap(relocs.external)) = 2
    /\ Unwrap(relocs.external)[1][1] = 5
    /\ Unwrap(relocs.external)[2][1] = 0

\* a loop iteration of write_relocations has run on the node at `next`
Visited == Walking /\ Len(relocations') = Len(relocations) + 1

\* the RelocInfo of the walk in progress
CurrentReloc == IF pc = "walk_in" THEN Unwrap(entry.inreloc) ELSE Unwrap(entry.exreloc)

\* C6: the log is in chain-traversal order: the first entry is the start
\* offset, each iteration logs the node it is on and moves to 4 * the next
\* field that node held before it was rewritten; the logged pointer too is
\* computed from the node as it was before the write.
C6_ChainOrder ==
    /\ [](Walking /\ relocations = <<>> => next = CurrentReloc.start)
    /\ [][Visited =>
            /\ relocations'[Len(relocations')][2] = next
            /\ relocations'[Len(relocations')][3] = 4 * U16(file, next + 2)
            /\ next' = 4 * U16(file, next)]_vars

\* C6 witness: two entries logged, the second at 4 * the first node's next field
C6_Witness ==
    /\ pc = "walk_in"
    /\ Len(relocations) = 2
    /\ relocations[1][2] = 0
    /\ relocations[2][2] = 4 * U16(file0, 0)
    /\ relocations[2][2] = 4

\* the second call of write_relocations, started at the offset the first call
\* started at, on the buffer the first call returned
SecondRun ==
    /\ pc \in {"walk_ex", "relocated", "panic"}
    /\ IsSome(relocs.internal)
    /\ IsSome(entry.exreloc)
    /\ Unwrap(entry.exreloc).start = Unwrap(entry.inreloc).start

\* C7 as claimed: the second run walks the chain of the first run again (the
\* same nodes in the same order) and completes.
C7_Original ==
    SecondRun =>
        LET log1 == Unwrap(relocs.internal)
        IN  /\ pc # "panic"
            /\ Len(relocations) <= Len(log1)
            /\ \A k \in 1..Len(relocations) : relocations[k][2] = log1[k][2]

\* C7 amended: the second run double-converts the start node only: it reads
\* the node's converted pointer q as next = q >> 16 and ptr = q mod 2^16, logs
\* 4 * (q mod 2^16) there, and goes on at 4 * (q >> 16), not at the chain's
\* next node.
C7_SecondRunLeavesChain ==
    SecondRun /\ Len(Unwrap(relocs.internal)) >= 1 /\ Acyclic(Unwrap(relocs.internal)) =>
        LET q     == Unwrap(relocs.internal)[1][3]
            start == Unwrap(entry.exreloc).start
        IN  /\ Len(relocations) >= 1 =>
                /\ relocations[1][2] = start
                /\ relocations[1][3] = 4 * (q % 65536)
            /\ Len(relocations) >= 2 => relocations[2][2] = 4 * (q \div 65536)
            /\ Len(relocations) = 1 /\ pc = "walk_ex" => next = 4 * (q \div 65536)

\* C7 witness: the second run visits the start node twice where the first run
\* went on to the chain's second node
C7_Witness ==
    /\ SecondRun
    /\ Acyclic(Unwrap(relocs.internal))
    /\ Len(Unwrap(relocs.internal)) = 2
    /\ Len(relocations) >= 2
    /\ relocations[2][2] # Unwrap(relocs.internal)[2][2]
    /\ relocations[1][3] = 4 * Unwrap(relocs.internal)[1][3]

\* C8 as claimed: the 4-byte pointer is written at o + 2: the next field at
\* o..o+2 keeps its value and the 2 bytes after the node are overwritten.
C8_Original ==
    [][Visited /\ InBounds(file, next, next + 6) =>
        /\ U16(file', next) = U16(file, next)
        /\ Slice(file', next + 2, next + 6) = BE32(4 * U16(file, next + 2))]_vars

\* C8 amended: the 4-byte pointer is written over the whole node [o, o+4):
\* the next field becomes the pointer's high 16 bits (p >> 14), the pointer
\* field its low 16 bits, and the 2 bytes after the node keep their values.
C8_WholeNodeOverwritten ==
    [][Visited =>
        LET p == U16(file, next + 2)
        IN  /\ Len(file') = Len(file)
            /\ Slice(file', next, next + 4) = BE32(4 * p)
            /\ U16(file', next) = p \div 16384
            /\ U16(file', next + 2) = (4 * p) % 65536
            /\ InBounds(file, next, next + 6) =>
                   Slice(file', next + 4, next + 6) = Slice(file, next + 4, next + 6)]_vars

\* C8 witness: a node followed by 2 bytes of the buffer has been rewritten, its
\* next field has changed and the 2 bytes after it have not
C8_Witness ==
    /\ pc = "walk_in"
    /\ Len(relocations) = 1
    /\ LET o == relocations[1][2]
       IN  /\ InBounds(file, o, o + 6)
           /\ U16(file, o) # U16(file0, o)
           /\ U16(file0, o + 4) = SENTINEL
           /\ Slice(file, o + 4, o + 6) = Slice(file0, o + 4, o + 6)

----------------------------------------------------------------------------
(* Properties of data(), under Spec.                                       *)

\* data() has got its record and is past the point where it decodes
PastPrepare == res.kind = "Ok" /\ pc # "emit"

\* C10: the decoder is invoked exactly when the mode is not raw and the
\* record is compressed; raw mode emits the stored payload unchanged,
\* decompressed mode the stored bytes when the bit is clear and the decoder's
\* output when it is set; a decoder failure ends the request with an error
\* and no data file.
C10_DecodeWhenNeeded ==
    /\ out.decoded # "no" =>
           res.kind = "Ok" /\ opt.mode # "RawBytes" /\ res.val.compressed
    /\ PastPrepare /\ opt.mode # "RawBytes" /\ res.val.compressed => out.decoded # "no"
    /\ IsSome(out.data) /\ opt.mode = "RawBytes" =>
           /\ Unwrap(out.data) = res.val.raw
           /\ Len(Unwrap(out.data)) = SizeOf(opt.id)
    /\ IsSome(out.data) /\ opt.mode = "Decompressed" =>
           Unwrap(out.data) = IF res.val.compressed THEN Expand(res.val.raw)
                              ELSE res.val.raw
    /\ out.decoded = "err" =>
           /\ out.result = "Err"
           /\ pc = "done"
           /\ ~IsSome(out.data)
           /\ ~IsSome(out.report)

\* C10 witness: a compressed record exported raw: its 8 stored bytes are
\* written and the decoder has not run
C10_Witness ==
    /\ opt.mode = "RawBytes"
    /\ res.kind = "Ok"
    /\ res.val.compressed
    /\ out.decoded = "no"
    /\ IsSome(out.data)
    /\ Len(Unwrap(out.data)) = 8

\* C10, the other cases, reached as well: the decoder's output written in
\* decompressed mode, and a decoder failure
C10_DecodedReached ==
    /\ opt.mode = "Decompressed"
    /\ out.decoded = "ok"
    /\ IsSome(out.data)
    /\ Unwrap(out.data) = Expand(res.val.raw)

C10_DecodeErrorReached == out.decoded = "err" /\ opt.mode = "Decompressed"

\* the internal head field of table record i, read from the image
InHeadOf(i) == U16(rom, RecordStart(i) + 4)

\* the position of data() in its control flow
PcRank(p) ==
    CASE p = "start" -> 0
      [] p = "get" -> 1
      [] p = "emit" -> 2
      [] p = "relocate" -> 3
      [] p = "walk_in" -> 4
      [] p = "relocate_ex" -> 5
      [] p = "walk_ex" -> 6
      [] p \in {"relocated", "write"} -> 7
      [] p = "report" -> 8
      [] OTHER -> 9

\* a call of write_relocations starts: the internal one (at = "walk_in") or
\* the external one (at = "walk_ex")
StartsWalk(at) == pc # at /\ pc' = at

\* the payload of the requested record as data() hands it to relocate
PreparedPayload == IF res.val.compressed THEN Expand(res.val.raw) ELSE res.val.raw

\* C11: in relocated mode write_relocations is started at most once per chain
\* (data() never moves backwards), the internal walk only when the internal
\* head is not 0xFFFF and at 4 * that head, the external walk only when the
\* external head is not 0xFFFF, at 4 * that head, on the buffer the internal
\* walk left and after that walk has returned; once relocate has returned, a
\* log is present exactly when its head is not 0xFFFF; with both heads 0xFFFF
\* the buffer written is the (decoded) payload and both logs are absent.
C11_RelocateOnce ==
    /\ [][/\ PcRank(pc) <= PcRank(pc')
          /\ StartsWalk("walk_in") =>
                 /\ pc = "relocate"
                 /\ InHeadOf(opt.id) # SENTINEL
                 /\ next' = 4 * InHeadOf(opt.id)
                 /\ next' # END
                 /\ file' = PreparedPayload
          /\ StartsWalk("walk_ex") =>
                 /\ pc = "relocate_ex"
                 /\ ExHeadOf(opt.id) # SENTINEL
                 /\ next' = 4 * ExHeadOf(opt.id)
                 /\ next' # END
                 /\ file' = file
                 /\ InHeadOf(opt.id) # SENTINEL => IsSome(relocs.internal)
                 /\ InHeadOf(opt.id) = SENTINEL => file = PreparedPayload]_vars
    /\ [](pc \in {"relocated", "report"} \/ (opt.mode = "Relocated" /\ IsSome(out.data)) =>
            /\ IsSome(relocs.internal) <=> InHeadOf(opt.id) # SENTINEL
            /\ IsSome(relocs.external) <=> ExHeadOf(opt.id) # SENTINEL
            /\ InHeadOf(opt.id) = SENTINEL /\ ExHeadOf(opt.id) = SENTINEL =>
                   /\ file = PreparedPayload
                   /\ relocs = NoRelocs
                   /\ IsSome(out.data) => Unwrap(out.data) = PreparedPayload
                   /\ IsSome(out.report) => Unwrap(out.report) = NoRelocs)

\* C11 witness: both chains walked, the internal one over node 0 and then
\* the external one over node 1, and the buffer written
C11_Witness ==
    /\ opt.mode = "Relocated"
    /\ IsSome(out.data)
    /\ IsSome(relocs.internal)
    /\ IsSome(relocs.external)
    /\ Len(Unwrap(relocs.internal)) = 1
    /\ Len(Unwrap(relocs.external)) = 1
    /\ Unwrap(relocs.internal)[1][2] = 0
    /\ Unwrap(relocs.external)[1][2] = 4

\* C11, the other case, reached as well: both heads are 0xFFFF, no walk has
\* run and the decoded payload is written with an empty report
C11_NoChainReached ==
    /\ opt.mode = "Relocated"
    /\ res.kind = "Ok"
    /\ res.val.compressed
    /\ InHeadOf(opt.id) = SENTINEL
    /\ ExHeadOf(opt.id) = SENTINEL
    /\ IsSome(out.data)
    /\ IsSome(out.report)

\* data() has ended: it returned, or it panicked
Ended == pc \in {"done", "panic"}
\* every output the request asks for has been written
AllProduced ==
    /\ IsSome(out.data)
    /\ opt.mode = "Relocated" /\ opt.emit_relocs => IsSome(out.report)
NoneProduced == ~IsSome(out.data) /\ ~IsSome(out.report)

\* C12 as claimed: a request that has ended has succeeded with every
\* requested output produced, or has failed with no output produced.
C12_Original ==
    Ended => \/ out.result = "Ok" /\ AllProduced
             \/ out.result # "Ok" /\ NoneProduced

\* C12 amended: resolution is all or nothing, the outputs are not.  A data
\* file is written only once the record is resolved and decoded and relocate
\* has returned, and it holds the final buffer; a request that succeeds has
\* produced every requested output; a request that fails has produced no
\* output, except that a failure to write the relocation report, which is
\* written last, leaves the data file behind.
C12_AllOrNothingUntilReport ==
    /\ IsSome(out.data) =>
           /\ res.kind = "Ok"
           /\ Unwrap(out.data) = file
           /\ NeedsDecode(opt.mode, res.val.compressed) => out.decoded = "ok"
           /\ opt.mode = "Relocated" =>
                  /\ IsSome(entry.inreloc) => IsSome(relocs.internal)
                  /\ IsSome(entry.exreloc) => IsSome(relocs.external)
    /\ IsSome(out.report) =>
           /\ IsSome(out.data)
           /\ opt.mode = "Relocated" /\ opt.emit_relocs
           /\ Unwrap(out.report) = relocs
           /\ out.result = "Ok"
    /\ out.result = "Ok" => pc = "done" /\ AllProduced
    /\ Ended /\ out.result # "Ok" =>
           \/ NoneProduced
           \/ /\ pc = "done"
              /\ opt.mode = "Relocated" /\ opt.emit_relocs
              /\ IsSome(out.data)
              /\ ~IsSome(out.report)

\* C12 witness: the report could not be written: the request has failed and
\* the relocated data file exists
C12_Witness ==
    /\ pc = "done"
    /\ out.result = "Err"
    /\ IsSome(out.data)
    /\ ~IsSome(out.report)
    /\ IsSome(relocs.internal)

\* C12, the other outcomes, reached as well
C12_AllProducedReached ==
    pc = "done" /\ out.result = "Ok" /\ IsSome(out.data) /\ IsSome(out.report)
C12_PanicReached == pc = "panic" /\ res.kind = "Ok" /\ NoneProduced

----------------------------------------------------------------------------
(* Cycles and termination of write_relocations, under SpecReloc.           *)

\* the last entry a log holds for the node at o
LastVisit(log, o) ==
    CHOOSE k \in 1..Len(log) :
        /\ log[k][2] = o
        /\ \A j \in (k + 1)..Len(log) : log[j][2] # o
\* a loop iteration has run on a node the walk in progress had visited before
Revisited == Visited /\ \E k \in 1..Len(relocations) : relocations[k][2] = next

\* C13 as claimed: a walk that has come back to a node it had visited never
\* returns and never fails: every log returned, and the log of a walk that
\* panicked, holds each node once.
C13_Original ==
    /\ IsSome(relocs.internal) => Acyclic(Unwrap(relocs.internal))
    /\ IsSome(relocs.external) => Acyclic(Unwrap(relocs.external))
    /\ pc = "panic" => Acyclic(relocations)

\* C13 amended: the loop does not recognise a visited node, it runs on it
\* again; but the node no longer holds its link: with q the pointer written
\* there, the iteration reads next = q >> 16 and ptr = q mod 2^16, logs
\* 4 * (q mod 2^16) and goes on at offset 4 * (q >> 16), one of 0, 4, 8, 12
\* and never the end marker, not at the node the original link named.
C13_RevisitLeavesChain ==
    [][Revisited =>
        LET q == relocations[LastVisit(relocations, next)][3]
        IN  /\ pc' = pc
            /\ relocations'[Len(relocations')][2] = next
            /\ relocations'[Len(relocations')][3] = 4 * (q % 65536)
            /\ next' = 4 * (q \div 65536)
            /\ next' \in {0, 4, 8, 12}
            /\ next' # END]_vars

\* C13 witness: node 0 names itself as its successor (next 0, pointer field
\* 0x4000); the walk visits it twice, leaves it for node 1 and returns
C13_Witness ==
    /\ IsSome(relocs.internal)
    /\ U16(file0, 0) = 0
    /\ Len(Unwrap(relocs.internal)) = 3
    /\ Unwrap(relocs.internal)[1][2] = 0
    /\ Unwrap(relocs.internal)[2][2] = 0
    /\ Unwrap(relocs.internal)[3][2] = 4

\* C13, the other end of such a walk, reached as well: it leaves the buffer
\* and panics
C13_PanicReached ==
    /\ pc = "panic"
    /\ Len(relocations) = 2
    /\ relocations[1][2] = relocations[2][2]
    /\ U16(file0, relocations[1][2]) * 4 = relocations[1][2]

\* the chain the links of buffer f spell from offset o: its node offsets, up to
\* k of them, as far as the nodes lie inside f and until a next field is 0xFFFF
RECURSIVE ChainFrom(_, _, _)
ChainFrom(f, o, k) ==
    IF k = 0 \/ o = END \/ ~InBounds(f, o, o + 4) THEN <<>>
    ELSE <<o>> \o ChainFrom(f, 4 * U16(f, o), k - 1)
ChainOf(f, o) == ChainFrom(f, o, Len(f) \div 4 + 1)
\* n >= 1 pairwise distinct nodes inside f, the last with raw next = 0xFFFF
WellFormedChain(f, o) ==
    LET c == ChainOf(f, o)
    IN  /\ Len(c) >= 1
        /\ \A i, j \in 1..Len(c) : i # j => c[i] # c[j]
        /\ U16(f, c[Len(c)]) = SENTINEL

\* the first call of write_relocations on the buffer is running, has
\* panicked, or has returned and no other call has started
FirstWalkRunning == pc = "walk_in" \/ (pc = "walk_ex" /\ ~IsSome(entry.inreloc))
FirstWalkPanicked == pc = "panic" /\ (IsSome(entry.inreloc) => ~IsSome(relocs.internal))
FirstWalkStart ==
    IF IsSome(entry.inreloc) THEN Unwrap(entry.inreloc).start ELSE Unwrap(entry.exreloc).start

\* C14: on a chain of n >= 1 pairwise distinct in-buffer nodes whose last raw
\* next is 0xFFFF the walk never panics; after k iterations it has logged the
\* chain's first k nodes and stands on node k + 1, and after n iterations on
\* the end marker, where only the return is left; the log returned holds the
\* n nodes, each once.  A walk that returns has stopped after the first node
\* whose raw next field was 0xFFFF.
C14_WalkLength ==
    /\ FirstWalkRunning /\ WellFormedChain(file0, FirstWalkStart) =>
           LET c == ChainOf(file0, FirstWalkStart)
               k == Len(relocations)
           IN  /\ k <= Len(c)
               /\ \A j \in 1..k : relocations[j][2] = c[j]
               /\ k < Len(c) => next = c[k + 1] /\ InBounds(file, next, next + 4)
               /\ k = Len(c) => next = END
    /\ FirstWalkPanicked => ~WellFormedChain(file0, FirstWalkStart)
    /\ \A log \in FirstWalkLogs :
           /\ WellFormedChain(file0, FirstWalkStart) =>
                  LET c == ChainOf(file0, FirstWalkStart)
                  IN  /\ Len(log) = Len(c)
                      /\ \A j \in 1..Len(c) : log[j][2] = c[j]
                      /\ Acyclic(log)
           /\ Acyclic(log) =>
                  \A j \in 1..Len(log) : U16(file0, log[j][2]) = SENTINEL <=> j = Len(log)

\* C14 witness: the chain node 1 -> node 0 -> end, walked in 2 iterations
C14_Witness ==
    /\ pc = "relocate_ex"
    /\ IsSome(relocs.internal)
    /\ WellFormedChain(file0, FirstWalkStart)
    /\ ChainOf(file0, FirstWalkStart) = <<4, 0>>
    /\ Len(Unwrap(relocs.internal)) = 2
    /\ Unwrap(relocs.internal)[1][2] = 4
    /\ Unwrap(relocs.internal)[2][2] = 0

----------------------------------------------------------------------------
(* The terminator record, under SpecGet.                                   *)

\* the terminator, the record at table index total_entries
TerminatorAt == RecordStart(total_entries(info))
\* get has run on the last real record, which has an external chain and whose
\* payload lies inside the image
LastRecordResolved ==
    /\ res.kind # "None"
    /\ opt.id >= 0
    /\ opt.id = total_entries(info) - 1
    /\ ExHeadOf(opt.id) # SENTINEL
    /\ InBounds(rom, info.table_end + OffsetOf(opt.id),
                info.table_end + OffsetOf(opt.id) + SizeOf(opt.id))
\* the list of the last real record, had it ended at the low 31 bits of the
\* terminator's first word
MaskedListEnd == info.table_end + U31(rom, TerminatorAt)
ResolvedToMaskedEnd ==
    InBounds(rom, ListStart(opt.id), MaskedListEnd)
    /\ (MaskedListEnd - ListStart(opt.id)) % 2 = 0
    => /\ res.kind = "Ok"
       /\ LastRead = <<ListStart(opt.id), MaskedListEnd>>
       /\ Len(Unwrap(res.val.exreloc).ids) * 2 = MaskedListEnd - ListStart(opt.id)

\* C15: the external list of the last real record ends at the terminator's
\* offset taken as the low 31 bits of its first word, whether the word's top
\* bit is set or not.
C15_TerminatorMasked == LastRecordResolved => ResolvedToMaskedEnd

\* C15 holds of the terminators whose top bit is clear
C15_UnflaggedTerminator ==
    LastRecordResolved /\ ~MSB(rom, TerminatorAt) => ResolvedToMaskedEnd

\* C15, the failing case: the terminator's top bit is set, the low 31 bits
\* bound a well-formed list, and get has panicked on the list's slice
C15_FlaggedReached ==
    /\ LastRecordResolved
    /\ MSB(rom, TerminatorAt)
    /\ InBounds(rom, ListStart(opt.id), MaskedListEnd)
    /\ (MaskedListEnd - ListStart(opt.id)) % 2 = 0
    /\ res.kind = "Panic"

----------------------------------------------------------------------------
(* Ranges outside their buffer, under SpecBounds.                          *)

\* the ranges TableFile::get computes for the requested record
RecordIn == InBounds(rom, RecordStart(opt.id), RecordStart(opt.id) + ENTRY_SIZE)
PayloadStart == info.table_end + OffsetOf(opt.id)
PayloadIn == InBounds(rom, PayloadStart, PayloadStart + SizeOf(opt.id))
\* the log entries of the walks run so far
Logged ==
    {relocations[k] : k \in 1..Len(relocations)}
    \cup (IF IsSome(relocs.internal)
          THEN {Unwrap(relocs.internal)[k] : k \in 1..Len(Unwrap(relocs.internal))}
          ELSE {})
    \cup (IF IsSome(relocs.external)
          THEN {Unwrap(relocs.external)[k] : k \in 1..Len(Unwrap(relocs.external))}
          ELSE {})

\* C16: a record, payload or external list range that is not inside the
\* image (a list that would end before it starts included) makes get panic:
\* no record is returned and data() writes nothing; a record returned has its
\* payload and its list of exactly the computed extent, read inside the
\* image.  A relocation node that is not inside the buffer makes the walk
\* panic: the buffer and the logs stay as they are and nothing is written;
\* every log entry is of a node inside the buffer.
C16_OutOfBoundsAborts ==
    /\ [](res.kind # "None" /\ opt.id < total_entries(info) =>
            /\ ~RecordIn => res.kind = "Panic"
            /\ RecordIn /\ ~PayloadIn => res.kind = "Panic"
            /\ RecordIn /\ PayloadIn /\ ExHeadOf(opt.id) # SENTINEL
               /\ InBounds(rom, TerminatorAt, TerminatorAt + 4)
               /\ ~InBounds(rom, ListStart(opt.id), ListEnd(opt.id)) => res.kind = "Panic"
            /\ res.kind = "Panic" => pc = "panic" /\ entry = Nothing /\ NoneProduced
            /\ res.kind = "Ok" =>
                   /\ RecordIn /\ PayloadIn
                   /\ res.val.raw = Slice(rom, PayloadStart, PayloadStart + SizeOf(opt.id))
                   /\ IsSome(res.val.exreloc) =>
                          /\ InBounds(rom, ListStart(opt.id), ListEnd(opt.id))
                          /\ Len(Unwrap(res.val.exreloc).ids) * 2
                                 = ListEnd(opt.id) - ListStart(opt.id))
    /\ [](\A e \in Logged : InBounds(file, e[2], e[2] + 4))
    /\ [](pc = "panic" => NoneProduced)
    /\ [][Walking /\ next # END /\ ~InBounds(file, next, next + 4) =>
             /\ pc' = "panic"
             /\ file' = file
             /\ relocations' = relocations
             /\ relocs' = relocs
             /\ out' = out]_vars

\* C16 witness: the terminator's offset lies before the end of the payload,
\* the list span is negative, and get has panicked
C16_Witness ==
    /\ res.kind = "Panic"
    /\ pc = "panic"
    /\ RecordIn /\ PayloadIn
    /\ ExHeadOf(opt.id) # SENTINEL
    /\ InBounds(rom, TerminatorAt, TerminatorAt + 4)
    /\ ListEnd(opt.id) < ListStart(opt.id)

\* C16, the other ranges, reached as well: a record cut short, a payload cut
\* short, a list that ends past the image, a node past the buffer
C16_RecordCutReached == res.kind = "Panic" /\ ~RecordIn
C16_PayloadCutReached == res.kind = "Panic" /\ RecordIn /\ ~PayloadIn
C16_ListPastImageReached ==
    /\ res.kind = "Panic"
    /\ RecordIn /\ PayloadIn
    /\ InBounds(rom, TerminatorAt, TerminatorAt + 4)
    /\ ListStart(opt.id) <= ListEnd(opt.id)
    /\ ListEnd(opt.id) > Len(rom)
C16_NodePastBufferReached ==
    /\ pc = "panic"
    /\ res.kind = "Ok"
    /\ Len(relocations) = 1
    /\ next = Len(file)

----------------------------------------------------------------------------
(* What write_relocations leaves alone, under Spec.                        *)

\* the buffer indices of the nodes logged so far: [o, o + 4) for each entry
Footprint == UNION {(e[2] + 1)..(e[2] + 4) : e \in Logged}

\* C17: an iteration of write_relocations changes no byte outside the 4 bytes
\* of the node it is on and keeps the buffer's length; so the buffer differs
\* from the one handed to relocate only inside the nodes logged.  No step of
\* data() changes the image: the payload of the record is still read there
\* as it was returned, the walks run on its copy.
C17_Frame ==
    /\ [][Visited =>
             /\ Len(file') = Len(file)
             /\ \A i \in 1..Len(file) :
                    i \notin (next + 1)..(next + 4) => file'[i] = file[i]]_vars
    /\ [](/\ Len(file) = Len(file0)
          /\ \A i \in 1..Len(file) : i \notin Footprint => file[i] = file0[i])
    /\ [][rom' = rom]_vars
    /\ [](res.kind = "Ok" =>
            res.val.raw = Slice(rom, PayloadStart, PayloadStart + SizeOf(opt.id)))

\* C17 witness: the 1-node chain at offset 0 of an 8-byte payload has been
\* walked: node 0 is rewritten, the 4 bytes after it are not, and the image
\* still holds the payload as it was
C17_Witness ==
    /\ IsSome(out.data)
    /\ IsSome(relocs.internal)
    /\ ~IsSome(relocs.external)
    /\ Len(Unwrap(relocs.internal)) = 1
    /\ Unwrap(relocs.internal)[1][2] = 0
    /\ Len(file) = 8
    /\ Slice(file, 0, 4) # Slice(file0, 0, 4)
    /\ Slice(file, 4, 8) = Slice(file0, 4, 8)
    /\ Slice(rom, PayloadStart, PayloadStart + 8) = file0

----------------------------------------------------------------------------
(* The records TableFile::get resolves on the way, under SpecGet.          *)

\* the slices get has taken of the image
Reads == {res.reads[k] : k \in 1..Len(res.reads)}
RecordRange(i) == <<RecordStart(i), RecordStart(i) + ENTRY_SIZE>>
PayloadRange(i) ==
    <<info.table_end + OffsetOf(i), info.table_end + OffsetOf(i) + SizeOf(i)>>
ListRange(i) == <<ListStart(i), ListEnd(i)>>
\* the records after record i that follow it without a gap in the external
\* chains: record j is one when every record from i to j - 1 has a chain
RunAfter(i) ==
    {j \in (i + 1)..(total_entries(info) - 1) :
        \A h \in i..(j - 1) : ExHeadOf(h) # SENTINEL}
\* record j resolves by its own fields: its payload lies inside the image
\* and, with an external chain, its list does and is of even length
ResolvesAlone(j) ==
    /\ InBounds(rom, PayloadRange(j)[1], PayloadRange(j)[2])
    /\ ExHeadOf(j) # SENTINEL =>
           /\ InBounds(rom, ListStart(j), ListEnd(j))
           /\ (ListEnd(j) - ListStart(j)) % 2 = 0

\* C18: get(id) on a record with an external chain resolves every record of
\* the run that follows it: it reads their records and payloads, and the
\* lists of those that have a chain, and it succeeds only if each of them
\* resolves, so it fails when one does not, whatever record id itself holds;
\* get(id) on a record without an external chain reads the record and its
\* payload and nothing else.
C18_ResolvesRun ==
    res.kind # "None" /\ opt.id < total_entries(info) =>
        /\ ExHeadOf(opt.id) = SENTINEL =>
               /\ Reads \subseteq {RecordRange(opt.id), PayloadRange(opt.id)}
               /\ ResolvesAlone(opt.id) => res.kind = "Ok"
        /\ res.kind = "Ok" =>
               \A j \in RunAfter(opt.id) :
                   /\ ResolvesAlone(j)
                   /\ RecordRange(j) \in Reads
                   /\ PayloadRange(j) \in Reads
                   /\ ExHeadOf(j) # SENTINEL => ListRange(j) \in Reads
        /\ (\E j \in RunAfter(opt.id) : ~ResolvesAlone(j)) => res.kind # "Ok"

\* C18 witness: record 0 resolves by its own fields (its list is inside the
\* image and of even length), record 1's list is 3 bytes long, and get(0) has
\* failed with MalformedList
C18_Witness ==
    /\ opt.id = 0
    /\ res.kind = "Err"
    /\ res.err = "MalformedList"
    /\ 1 \in RunAfter(0)
    /\ ResolvesAlone(0)
    /\ ~ResolvesAlone(1)
    /\ ListRange(1)[2] - ListRange(1)[1] = 3

\* C18, the other cases, reached as well: a run of two records resolved, and
\* a record without a chain resolved before a record that would not resolve
C18_RunResolvedReached ==
    /\ opt.id = 0
    /\ res.kind = "Ok"
    /\ 1 \in RunAfter(0)
    /\ ExHeadOf(1) # SENTINEL
    /\ Len(res.reads) = 7
C18_NoChainReached ==
    /\ opt.id = 0
    /\ res.kind = "Ok"
    /\ ExHeadOf(0) = SENTINEL
    /\ total_entries(info) = 2
    /\ ~ResolvesAlone(1)

----------------------------------------------------------------------------
(* Properties of ResourceTbl::get_entry, under SpecTbl.                    *)

\* the region of the table's real entries
InRealEntries(r) ==
    info.start <= r[1] /\ r[2] <= info.start + 12 * info.entries_count

\* C19: get_entry returns IllegalFile for every id >= entries_count, and
\* the 12 bytes it decodes for an id it accepts lie inside the real entries
\* [start, start + 12 * entries_count).
C19_IllegalFile ==
    res.kind # "None" =>
        /\ opt.id >= info.entries_count => res.kind = "Err" /\ res.err = "IllegalFile"
        /\ res.kind = "Ok" =>
               /\ Len(res.reads) = 1
               /\ res.reads[1][2] - res.reads[1][1] = 12
               /\ InRealEntries(res.reads[1])

\* C19 holds of every id but entries_count: a larger id gets IllegalFile, a
\* smaller one its record, decoded inside the real entries
C19_ButBoundary ==
    res.kind # "None" /\ opt.id # info.entries_count =>
        /\ opt.id > info.entries_count => res.kind = "Err" /\ res.err = "IllegalFile"
        /\ opt.id < info.entries_count =>
               /\ res.kind = "Ok"
               /\ res.reads = <<<<info.start + 12 * opt.id, info.start + 12 * opt.id + 12>>>>
               /\ InRealEntries(res.reads[1])
               /\ res.val[1] = ResTblEntryFrom(Slice(rom, info.start + 12 * opt.id,
                                                      info.start + 12 * opt.id + 12))

\* C19, the failing case: id = entries_count passes the check and the slice
\* index of the entry panics
C19_BoundaryReached ==
    /\ opt.id = info.entries_count
    /\ info.entries_count = 2
    /\ res.kind = "Panic"
    /\ pc = "panic"

=============================================================================
